---- MODULE Spec2Model ----
(***************************************************************************)
(* The chat view (frontend/src/pages/Chat.js), the auth context            *)
(* (frontend/src/contexts/AuthContext.js) and the backend they talk to,    *)
(* as one state machine.  Every async handler is split at its awaits: the  *)
(* part before an await and the part after it are separate actions, and    *)
(* the part after it sees the React state its closure captured when the    *)
(* handler was invoked, not the state at the time the response arrives.    *)
(***************************************************************************)
EXTENDS Integers, Sequences, FiniteSets, TLC

\* ---------------------------------------------------------------- bounds
MaxCredits == 2         \* largest initial balance of a non-admin user
MaxUsage == 2           \* largest usage.total_tokens of one response
MaxSessions == 2        \* session ids the backend hands out
MaxMsgs == 3            \* a send is started only below this many messages
MaxInFlight == 2        \* handler invocations waiting for a response at the same time

\* -------------------------------------------------------------- constants
AdminCredits == 999999999

NoSession == 0
SessionIds == 1..MaxSessions
Models == {"m1"}
DefaultModel == "m1"
Inputs == {"", " a"}
Usages == 0..MaxUsage

\* String.prototype.trim on the inputs above
Trim(s) ==
  IF s = " " THEN ""
  ELSE IF s = " a" THEN "a"
  ELSE s

\* ------------------------------------------------------------ user values
\* A user value of the auth context: null, or a record whose credits field
\* is a number, is missing (undefined) or is NaN.
NullUser == [present |-> FALSE, is_admin |-> FALSE, ctype |-> "undefined", credits |-> 0]
UserRec(adm, c) == [present |-> TRUE, is_admin |-> adm, ctype |-> "num", credits |-> c]
NoCreditsRec(adm) == [present |-> TRUE, is_admin |-> adm, ctype |-> "undefined", credits |-> 0]

\* user?.is_admin as a truth value
IsAdmin(u) == u.present /\ u.is_admin

\* user?.credits <= 0 : undefined <= 0 and NaN <= 0 are both false
CreditsLeqZero(u) == u.present /\ u.ctype = "num" /\ u.credits <= 0

\* a credit check that compares with < instead of <=
CreditCheckLetsZeroThrough(u) == ~(~IsAdmin(u) /\ u.present /\ u.ctype = "num" /\ u.credits < 0)

\* a credit check that is left to the backend
CreditCheckSkipped(u) == TRUE

\* the credit check of sendMessage: TRUE when the send is let through
CreditCheckPasses(u) == ~(~IsAdmin(u) /\ CreditsLeqZero(u))

\* a subtraction that stops at 0
MinusClamped(u, n) ==
  IF u.ctype = "num"
  THEN [u EXCEPT !.credits = IF u.credits - n < 0 THEN 0 ELSE u.credits - n]
  ELSE [u EXCEPT !.ctype = "NaN", !.credits = 0]

\* user.credits - total_tokens, for a user record
Minus(u, n) ==
  IF u.ctype = "num" THEN [u EXCEPT !.credits = u.credits - n]
  ELSE [u EXCEPT !.ctype = "NaN", !.credits = 0]

\* the accounts of the backend; an access token names the account it was
\* issued to, and NoToken is localStorage without a token
Accounts == {"A", "B"}
NoToken == "none"

UserMsg(t) == [role |-> "user", content |-> t]
AssistantMsg(t) == [role |-> "assistant", content |-> t]
Reply == "r"

VARIABLES
  user,            \* AuthContext: user
  sessions,        \* Chat: sessions (ids, in display order)
  currentSession,  \* Chat: currentSession (id, NoSession for null)
  messages,        \* Chat: messages
  inputMessage,    \* Chat: inputMessage
  loading,         \* Chat: loading
  selectedModel,   \* Chat: selectedModel
  toast,           \* the toast the last step raised ("none" when it raised none)
  flight,          \* the handler invocations waiting at an await, oldest first
  store,           \* backend: the session store
  nextId,          \* backend: next session id
  balance,         \* backend: the ledger balance of the logged-in account
  returned,        \* history: the handler invocation that returned in the last step
  token,           \* localStorage: token
  authLoading,     \* AuthContext: loading
  location,        \* window.location ("->/login" while the document is being replaced)
  valid            \* backend: the access tokens it accepts

vars == <<user, sessions, currentSession, messages, inputMessage, loading,
          selectedModel, toast, flight, store, nextId, balance, returned,
          token, authLoading, location, valid>>

chatState == <<sessions, currentSession, messages, inputMessage, loading, selectedModel>>
backend == <<store, nextId, balance>>
auth == <<token, authLoading, location, valid>>

\* ------------------------------------------------------------- the backend
\* A stored session; a free id holds NoRecord.
NoRecord ==
  [live |-> FALSE, model |-> DefaultModel, messages |-> <<>>, message_count |-> 0,
   owner |-> NoToken]

\* createSession for the account of the caller's token
Stored(m) ==
  [live |-> TRUE, model |-> m, messages |-> <<>>, message_count |-> 0, owner |-> token]

\* POST /chat/sessions : the new session's id
CreateSessionId == nextId

\* the backend can answer a create request with a session
CanCreate == nextId <= MaxSessions

\* GET /chat/sessions : the caller's sessions, most recent first
RECURSIVE ListFrom(_)
ListFrom(n) ==
  IF n = 0 THEN <<>>
  ELSE IF store[n].live THEN <<n>> \o ListFrom(n - 1)
  ELSE ListFrom(n - 1)

ListSessions == ListFrom(MaxSessions)

\* the admission gate of POST /chat (402 when it is FALSE)
CanSend(adm, bal) == adm \/ bal > 0

\* the ledger's debit: unconditional for a non-exempt account
Debit(adm, bal, n) == IF adm THEN bal ELSE bal - n

\* an append that writes the user turn and leaves the assistant turn out
AppendUserTurnOnly(rec, userTurn, assistantTurn) ==
  [rec EXCEPT !.messages = Append(rec.messages, userTurn),
              !.message_count = rec.message_count + 2]

\* appendExchange: both turns and the message count in one write
AppendExchange(rec, userTurn, assistantTurn) ==
  [rec EXCEPT !.messages = rec.messages \o <<userTurn, assistantTurn>>,
              !.message_count = rec.message_count + 2]

\* --------------------------------------------------------- the chat view
\* sessions.filter(s => s.id !== sessionId)
Without(list, sid) == SelectSeq(list, LAMBDA x : x # sid)

\* [...messages, userMessage]
NewMessages(h) == Append(h.messages, UserMsg(Trim(h.input)))

\* A handler invocation waiting at an await: which handler (kind), where it
\* waits (pc), its argument, what its closure holds, and for a sendMessage
\* the session it resolved (sid), the session the backend resolved for its
\* request (resolved), the usage of its response and the steps it
\* has taken (trace).  A closure field is kept only while the handler still
\* reads it.
Handler(kind, pc) ==
  [kind |-> kind, pc |-> pc, arg |-> NoSession, user |-> NullUser, messages |-> <<>>,
   sessions |-> <<>>, currentSession |-> NoSession, selectedModel |-> DefaultModel,
   input |-> "", usage |-> 0, sid |-> NoSession, resolved |-> NoSession, trace |-> <<>>]

NoHandler == Handler("none", "idle")

\* the handler h has returned after the steps done
Done(h, done) ==
  [h EXCEPT !.pc = "returned", !.trace = h.trace \o done, !.sessions = <<>>,
            !.selectedModel = DefaultModel, !.input = ""]

Waiting == 1..Len(flight)

\* a handler can be invoked
CanInvoke == Len(flight) < MaxInFlight

\* the invocation at position j has returned
Returns(j) == SubSeq(flight, 1, j - 1) \o SubSeq(flight, j + 1, Len(flight))

\* the invocation at position j moves on to its next await
MovesTo(j, h) == [flight EXCEPT ![j] = h]

\* Statements between two awaits run to completion: while a sendMessage is
\* between its setMessages and its credit update, no other handler runs.
Quiet == \A j \in Waiting : flight[j].pc # "persisted"

\* ------------------------------------------------------------------ Init
InitUsers ==
  {UserRec(TRUE, AdminCredits)} \cup {UserRec(FALSE, c) : c \in 0..MaxCredits}

InitChat ==
  /\ sessions = <<>>
  /\ currentSession = NoSession
  /\ messages = <<>>
  /\ inputMessage = ""
  /\ loading = FALSE
  /\ selectedModel = DefaultModel
  /\ toast = "none"
  \* the mount effect has called fetchSessions
  /\ flight = <<Handler("fetchSessions", "listing")>>
  /\ returned = NoHandler

InitBackend ==
  /\ store = [s \in SessionIds |-> NoRecord]
  /\ nextId = 1

\* the chat view is shown to a user who is logged in with an accepted token
InitLoggedIn ==
  /\ token = "A"
  /\ valid = {"A"}
  /\ authLoading = FALSE
  /\ location = "/"

Init ==
  /\ user \in InitUsers
  /\ balance = user.credits
  /\ InitChat
  /\ InitBackend
  /\ InitLoggedIn

\* ------------------------------------------------- typing and the selector
\* onChange of the textarea, which is disabled while loading
TypeInput(t) ==
  /\ Quiet
  /\ ~loading
  /\ inputMessage' = t
  /\ toast' = "none"
  /\ returned' = NoHandler
  /\ UNCHANGED <<user, sessions, currentSession, messages, loading, selectedModel,
                 flight, backend>>
  /\ UNCHANGED auth

\* onChange of the model selector
SelectModel(m) ==
  /\ Quiet
  /\ selectedModel' = m
  /\ toast' = "none"
  /\ returned' = NoHandler
  /\ UNCHANGED <<user, sessions, currentSession, messages, inputMessage, loading,
                 flight, backend>>
  /\ UNCHANGED auth

\* --------------------------------------------------------- createNewSession
\* The part of createNewSession after its await, in the handler h.  It sets
\* the session list, the current session and the toast, and the backend's
\* store; the caller sets messages.
CreateResume(ok, h) ==
  IF ok
  THEN /\ store' = [store EXCEPT ![CreateSessionId] = Stored(h.selectedModel)]
       /\ nextId' = nextId + 1
       /\ sessions' = <<CreateSessionId>> \o h.sessions
       /\ currentSession' = CreateSessionId
       /\ toast' = "New chat session created"
  ELSE /\ toast' = "Failed to create new session"
       /\ UNCHANGED <<store, nextId, sessions, currentSession>>

\* ------------------------------------------------------------- sendMessage
\* an updateUserCredits that applies a debit only to a balance still above 0
UpdateUserCreditsIfPositive(cu, newUser) ==
  IF cu.present /\ user.credits > 0 THEN newUser ELSE user

\* updateUserCredits(newCredits) of the auth context whose closure holds cu
UpdateUserCredits(cu, newUser) == IF cu.present THEN newUser ELSE user

\* a credit update that forgets the admin exemption
SettledUserNoExemption(h, n) ==
  IF n # 0 THEN UpdateUserCredits(h.user, Minus(h.user, n)) ELSE user

\* the user value after lines 136-140 for a response with n total tokens
SettledUser(h, n) ==
  IF n # 0 /\ ~IsAdmin(h.user)
  THEN UpdateUserCredits(h.user, Minus(h.user, n))
  ELSE user

\* line 138 reads user.credits of a null user
SettleThrows(h, n) == n # 0 /\ ~IsAdmin(h.user) /\ ~h.user.present

\* a catch block that keeps the optimistic user turn
RolledBackKeepsTurn(h) == NewMessages(h)

\* the message list the catch block restores
RolledBack(h) == h.messages

\* a catch block that charges one credit for the failed request
FailedUserCharged(h) == IF h.user.present THEN Minus(h.user, 1) ELSE user

\* the user value the catch block leaves
FailedUser(h) == user

\* the closure of a sendMessage invoked in the current render
SendClosure ==
  [Handler("sendMessage", "start") EXCEPT
     !.user = user, !.messages = messages, !.sessions = sessions,
     !.selectedModel = selectedModel, !.input = inputMessage]

\* lines 119-126: the optimistic add and the request
BeginPost(h) ==
  /\ messages' = NewMessages(h)
  /\ inputMessage' = ""
  /\ loading' = TRUE

Posting(h) ==
  [h EXCEPT !.pc = "posting", !.sessions = <<>>, !.trace = Append(h.trace, "invoke")]

\* sendMessage up to its first await
SendMessage ==
  /\ Quiet
  /\ ~loading
  /\ Len(messages) < MaxMsgs
  /\ LET h == SendClosure IN
     IF Trim(inputMessage) = ""
     THEN /\ toast' = "none"
          /\ returned' = Done(h, <<"blank">>)
          /\ UNCHANGED <<user, chatState, flight, backend>>
     ELSE IF ~CreditCheckPasses(user)
     THEN /\ toast' = "Insufficient credits"
          /\ returned' = Done(h, <<"rejected">>)
          /\ UNCHANGED <<user, chatState, flight, backend>>
     ELSE IF currentSession = NoSession
     THEN /\ CanInvoke
          /\ flight' = Append(flight, [h EXCEPT !.pc = "creating", !.trace = <<"admit">>])
          /\ toast' = "none"
          /\ returned' = NoHandler
          /\ UNCHANGED <<user, chatState, backend>>
     ELSE /\ CanInvoke
          /\ BeginPost(h)
          /\ flight' = Append(flight, Posting([h EXCEPT !.sid = currentSession,
                                                       !.trace = <<"admit">>]))
          /\ toast' = "none"
          /\ returned' = NoHandler
          /\ UNCHANGED <<user, sessions, currentSession, selectedModel, backend>>
  /\ UNCHANGED auth

\* sendMessage from the await of createNewSession to the await of the request
SendCreated(j) ==
  /\ Quiet
  /\ flight[j].kind = "sendMessage" /\ flight[j].pc = "creating"
  /\ \E ok \in BOOLEAN :
       /\ ok => CanCreate
       /\ CreateResume(ok, flight[j])
       /\ BeginPost(flight[j])
       /\ flight' = MovesTo(j, Posting([flight[j] EXCEPT
                      !.sid = IF ok THEN CreateSessionId ELSE NoSession,
                      !.trace = Append(flight[j].trace,
                                       IF ok THEN "create" ELSE "create_failed")]))
  /\ returned' = NoHandler
  /\ UNCHANGED <<user, selectedModel, balance>>
  /\ UNCHANGED auth

\* the credit update placed before setMessages
ResponseStepsSwapped == <<"settle", "persist">>

\* The two statements sendMessage runs on a response, in program order:
\* setMessages with the assistant turn (lines 133-134), then the credit
\* update (lines 136-140).
ResponseSteps == <<"persist", "settle">>

RunStep(step, h, n) ==
  IF step = "persist"
  THEN /\ messages' = Append(NewMessages(h), AssistantMsg(Reply))
       /\ user' = user
  ELSE /\ user' = SettledUser(h, n)
       /\ messages' = messages

\* the credit update changes the balance
Debits(h, n) == n # 0 /\ ~IsAdmin(h.user)

\* The backend takes up the request of POST /chat: admission, then session
\* resolution.  The request names no session, so one is created with the
\* requested model; the completion call is then under way.
SendArrived(j) ==
  LET h == flight[j] IN
  /\ Quiet
  /\ h.kind = "sendMessage" /\ h.pc = "posting"
  /\ CanSend(IsAdmin(h.user), balance)
  /\ CanCreate
  /\ store' = [store EXCEPT ![CreateSessionId] = Stored(h.selectedModel)]
  /\ nextId' = nextId + 1
  /\ flight' = MovesTo(j, [h EXCEPT !.pc = "invoking", !.resolved = CreateSessionId])
  /\ toast' = "none"
  /\ returned' = NoHandler
  /\ UNCHANGED <<user, chatState, balance>>
  /\ UNCHANGED auth

\* The completion call succeeds, reporting n tokens: the backend appends the
\* exchange to the session it resolved and settles, and sendMessage runs the
\* first statement on the response.
SendSucceeded(j, n) ==
  LET h == flight[j] IN
  /\ Quiet
  /\ h.kind = "sendMessage" /\ h.pc = "invoking"
  /\ store[h.resolved].live
  /\ store' = [store EXCEPT ![h.resolved] =
                  AppendExchange(store[h.resolved], UserMsg(Trim(h.input)), AssistantMsg(Reply))]
  /\ balance' = Debit(IsAdmin(h.user), balance, n)
  /\ RunStep(ResponseSteps[1], h, n)
  /\ flight' = MovesTo(j, [h EXCEPT !.pc = "persisted", !.usage = n,
                                    !.trace = Append(h.trace, ResponseSteps[1])])
  /\ toast' = "none"
  /\ returned' = NoHandler
  /\ UNCHANGED <<sessions, currentSession, inputMessage, loading, selectedModel, nextId>>
  /\ UNCHANGED auth

\* a send that resets the loading flag at the end of its try block only
LoadingResetOnSuccessOnly(failed) == IF failed THEN loading ELSE FALSE

\* the finally block of sendMessage: setLoading(false), whether or not the
\* try block failed
LoadingAfter(failed) == FALSE

\* sendMessage from the second statement to its end
SendSettle(j) ==
  LET h == flight[j] IN
  /\ h.kind = "sendMessage" /\ h.pc = "persisted"
  /\ loading' = LoadingAfter(SettleThrows(h, h.usage))
  /\ flight' = Returns(j)
  /\ IF SettleThrows(h, h.usage)
     THEN /\ messages' = RolledBack(h)
          /\ toast' = "Failed to send message"
          /\ user' = FailedUser(h)
          /\ returned' = Done(h, <<"throw", "rollback">>)
     ELSE /\ RunStep(ResponseSteps[2], h, h.usage)
          /\ toast' = "none"
          /\ returned' = Done(h, IF Debits(h, h.usage) THEN <<ResponseSteps[2]>> ELSE <<>>)
  /\ UNCHANGED <<sessions, currentSession, inputMessage, selectedModel, backend>>
  /\ UNCHANGED auth

FailureKinds == {"402", "notfound", "upstream", "network"}

\* error.response?.data?.detail || 'Failed to send message'
ErrorMessage(kind) ==
  IF kind = "network" THEN "Failed to send message"
  ELSE IF kind = "402" THEN "detail: insufficient credits"
  ELSE IF kind = "notfound" THEN "detail: session not found"
  ELSE "detail: upstream error"

\* a catch block that issues the request again
FailureRetries(j) == MovesTo(j, Posting(flight[j]))

\* the pending handlers after catch and finally: sendMessage returns
FailureReturns(j) == Returns(j)

\* sendMessage after a failed completion request
SendFailed(j, kind) ==
  LET h == flight[j] IN
  /\ Quiet
  /\ h.kind = "sendMessage" /\ h.pc \in {"posting", "invoking"}
  /\ kind = "402" => (h.pc = "posting" /\ ~CanSend(IsAdmin(h.user), balance))
  /\ kind = "notfound" => (h.pc = "invoking" /\ ~store[h.resolved].live)
  /\ kind = "upstream" => h.pc = "invoking"
  /\ toast' = ErrorMessage(kind)
  /\ messages' = RolledBack(h)
  /\ user' = FailedUser(h)
  /\ loading' = LoadingAfter(TRUE)
  /\ flight' = FailureReturns(j)
  /\ returned' = Done(h, <<"failed", "rollback">>)
  /\ UNCHANGED <<sessions, currentSession, inputMessage, selectedModel, backend>>
  /\ UNCHANGED auth

\* ------------------------------------------------------- session handlers
\* the New Chat button: createNewSession up to its await
NewChat ==
  /\ Quiet
  /\ CanInvoke
  /\ flight' = Append(flight, [Handler("createNewSession", "creating") EXCEPT
                                 !.sessions = sessions, !.selectedModel = selectedModel])
  /\ toast' = "none"
  /\ returned' = NoHandler
  /\ UNCHANGED <<user, chatState, backend>>
  /\ UNCHANGED auth

NewChatDone(j) ==
  /\ Quiet
  /\ flight[j].kind = "createNewSession"
  /\ \E ok \in BOOLEAN :
       /\ ok => CanCreate
       /\ CreateResume(ok, flight[j])
       /\ messages' = IF ok THEN <<>> ELSE messages
       /\ returned' = Done(flight[j], IF ok THEN <<"ok">> ELSE <<"failed">>)
  /\ flight' = Returns(j)
  /\ UNCHANGED <<user, inputMessage, loading, selectedModel, balance>>
  /\ UNCHANGED auth

\* a click on a listed session: selectSession up to its await
SelectSession(s) ==
  /\ Quiet
  /\ CanInvoke
  /\ \E n \in 1..Len(sessions) : sessions[n] = s
  /\ flight' = Append(flight, [Handler("selectSession", "selecting") EXCEPT !.arg = s])
  /\ toast' = "none"
  /\ returned' = NoHandler
  /\ UNCHANGED <<user, chatState, backend>>
  /\ UNCHANGED auth

\* a selectSession that adds the fetched messages to the ones shown
LoadedMessagesAppended(rec) == messages \o rec.messages

\* response.data.messages || [] of the fetched session
LoadedMessages(rec) == rec.messages

SelectSessionDone(j) ==
  LET h == flight[j] IN
  /\ Quiet
  /\ h.kind = "selectSession"
  /\ \E ok \in BOOLEAN :
       /\ ok => store[h.arg].live
       /\ IF ok
          THEN /\ currentSession' = h.arg
               /\ messages' = LoadedMessages(store[h.arg])
               /\ selectedModel' = store[h.arg].model
               /\ toast' = "none"
          ELSE /\ toast' = "Failed to load session"
               /\ UNCHANGED <<currentSession, messages, selectedModel>>
       /\ returned' = Done(h, IF ok THEN <<"ok">> ELSE <<"failed">>)
  /\ flight' = Returns(j)
  /\ UNCHANGED <<user, sessions, inputMessage, loading, backend>>
  /\ UNCHANGED auth

\* a click on a session's trash icon: deleteSession up to its await
DeleteSession(s) ==
  /\ Quiet
  /\ CanInvoke
  /\ \E n \in 1..Len(sessions) : sessions[n] = s
  /\ flight' = Append(flight, [Handler("deleteSession", "deleting") EXCEPT
                                 !.arg = s, !.sessions = sessions,
                                 !.currentSession = currentSession])
  /\ toast' = "none"
  /\ returned' = NoHandler
  /\ UNCHANGED <<user, chatState, backend>>
  /\ UNCHANGED auth

\* a deleteSession that filters the list before it knows the outcome
DeletedSessionsOptimistic(ok, h) == Without(h.sessions, h.arg)

\* the session list deleteSession leaves: filtered after a successful
\* request, untouched by the catch block
DeletedSessions(ok, h) == IF ok THEN Without(h.sessions, h.arg) ELSE sessions

DeleteSessionDone(j) ==
  LET h == flight[j] IN
  /\ Quiet
  /\ h.kind = "deleteSession"
  /\ \E ok \in BOOLEAN :
       /\ ok => store[h.arg].live
       /\ sessions' = DeletedSessions(ok, h)
       /\ IF ok
          THEN /\ store' = [store EXCEPT ![h.arg] = NoRecord]
               /\ IF h.currentSession = h.arg
                  THEN currentSession' = NoSession /\ messages' = <<>>
                  ELSE UNCHANGED <<currentSession, messages>>
               /\ toast' = "Session deleted"
          ELSE /\ toast' = "Failed to delete session"
               /\ UNCHANGED <<store, currentSession, messages>>
       /\ returned' = Done(h, IF ok THEN <<"ok">> ELSE <<"failed">>)
  /\ flight' = Returns(j)
  /\ UNCHANGED <<user, inputMessage, loading, selectedModel, nextId, balance>>
  /\ UNCHANGED auth

\* fetchSessions after its await
FetchSessionsDone(j) ==
  /\ Quiet
  /\ flight[j].kind = "fetchSessions"
  /\ \E ok \in BOOLEAN :
       /\ sessions' = IF ok THEN ListSessions ELSE sessions
       /\ returned' = Done(flight[j], IF ok THEN <<"ok">> ELSE <<"failed">>)
  /\ flight' = Returns(j)
  /\ toast' = "none"
  /\ UNCHANGED <<user, currentSession, messages, inputMessage, loading, selectedModel,
                 backend>>
  /\ UNCHANGED auth

\* ------------------------------------------------------------------- Next
Next ==
  \/ \E t \in Inputs : TypeInput(t)
  \/ \E m \in Models : SelectModel(m)
  \/ SendMessage
  \/ \E j \in Waiting : SendCreated(j)
  \/ \E j \in Waiting : SendArrived(j)
  \/ \E j \in Waiting, n \in Usages : SendSucceeded(j, n)
  \/ \E j \in Waiting : SendSettle(j)
  \/ \E j \in Waiting, kind \in FailureKinds : SendFailed(j, kind)
  \/ NewChat
  \/ \E j \in Waiting : NewChatDone(j)
  \/ \E s \in SessionIds : SelectSession(s)
  \/ \E j \in Waiting : SelectSessionDone(j)
  \/ \E s \in SessionIds : DeleteSession(s)
  \/ \E j \in Waiting : DeleteSessionDone(j)
  \/ \E j \in Waiting : FetchSessionsDone(j)

Spec == Init /\ [][Next]_vars

\* ------------------------------------------- the credit check on any user
\* Every value the auth context's user can take, as an input of the credit
\* check: null, a record without a credits value, a record with a balance.
UserStates ==
  {NullUser} \cup {NoCreditsRec(adm) : adm \in BOOLEAN}
    \cup {UserRec(FALSE, c) : c \in -1..MaxCredits} \cup {UserRec(TRUE, AdminCredits)}

InitAdmit ==
  /\ user \in UserStates
  /\ balance \in IF user.ctype = "num" THEN {user.credits} ELSE {0, MaxCredits}
  /\ InitChat
  /\ InitBackend
  /\ InitLoggedIn

SpecAdmit == InitAdmit /\ [][Next]_vars

\* ------------------------------------------- the auth context and api.js
\* The auth context (login, register, logout, checkAuthStatus), the two
\* interceptors of api.js and the session requests of chatAPI, against a
\* backend that knows two accounts.  The chat view's own state plays no part
\* here and stays as it is.
chatView == <<sessions, currentSession, messages, inputMessage, loading, selectedModel, balance>>

\* response.data of login and of getMe for an account
Profile(a) == IF a = "A" THEN UserRec(TRUE, AdminCredits) ELSE UserRec(FALSE, MaxCredits)

\* request interceptor: the Authorization header of a request issued now
\* (NoToken: the request carries no header)
AuthHeader == token

\* A request waiting for its response: the function that issued it (kind),
\* the header it was sent with (kept for the endpoints that read it), its
\* argument (a session id, or the account and whether the credentials are
\* right), and once it has returned the status of the response, the result
\* of login/register and the sessions the response held.
Request(kind, header) ==
  [kind |-> kind, pc |-> "waiting", header |-> header, arg |-> NoSession,
   account |-> NoToken, good |-> FALSE, status |-> "none", success |-> FALSE,
   data |-> <<>>]

NoCall == Request("none", NoToken)

Answered(h, status, success, data) ==
  [h EXCEPT !.pc = "returned", !.status = status, !.success = success, !.data = data]

\* the backend's credential check: no credential is answered with 403, a
\* credential it does not accept with 401
Authenticate(header) ==
  IF header = NoToken THEN "403"
  ELSE IF header \notin valid THEN "401"
  ELSE "ok"

\* every stored session passes the ownership check
OwnsAny(a, s) == store[s].live

\* the session s exists and is owned by account a
Owns(a, s) == store[s].live /\ store[s].owner = a

\* listSessions(ownerId): the sessions of a, most recent first
RECURSIVE ListOwnedFrom(_, _)
ListOwnedFrom(a, n) ==
  IF n = 0 THEN <<>>
  ELSE IF Owns(a, n) THEN <<n>> \o ListOwnedFrom(a, n - 1)
  ELSE ListOwnedFrom(a, n - 1)

ListOwned(a) == ListOwnedFrom(a, MaxSessions)

\* response interceptor, on an error with this status
InterceptedToken(status) == IF status = "401" THEN NoToken ELSE token
InterceptedLocation(status) == IF status = "401" THEN "->/login" ELSE location
InterceptedToast(status) ==
  IF status = "401" THEN "Session expired. Please login again."
  ELSE IF status = "402" THEN "Insufficient credits. Please contact admin."
  ELSE "none"

\* the requests the mount effect's checkAuthStatus has issued, given the token
GetMeCalls(tok) == IF tok # NoToken THEN <<Request("checkAuthStatus", tok)>> ELSE <<>>

\* a checkAuthStatus that leaves loading set when the token is rejected
AuthLoadingStuckOnReject(status) == IF status = "ok" THEN FALSE ELSE authLoading

\* setLoading(false) at the end of checkAuthStatus, on every path
AuthLoadingAfter(status) == FALSE

\* the AuthProvider has just been mounted in a browser that may hold a token
\* from an earlier visit
InitAuth ==
  /\ user = NullUser
  /\ token \in {NoToken} \cup Accounts
  /\ valid \in SUBSET Accounts
  /\ authLoading = (token # NoToken)
  /\ flight = GetMeCalls(token)
  /\ location = "/"
  /\ toast = "none"
  /\ returned = NoCall
  /\ sessions = <<>>
  /\ currentSession = NoSession
  /\ messages = <<>>
  /\ inputMessage = ""
  /\ loading = FALSE
  /\ selectedModel = DefaultModel
  /\ balance = 0
  /\ InitBackend

\* checkAuthStatus up to its await (no await without a token)
CheckAuthStatus ==
  /\ CanInvoke
  /\ IF token # NoToken
     THEN /\ flight' = Append(flight, Request("checkAuthStatus", AuthHeader))
          /\ authLoading' = authLoading
          /\ returned' = NoCall
     ELSE /\ flight' = flight
          /\ authLoading' = AuthLoadingAfter("none")
          /\ returned' = Answered(Request("checkAuthStatus", NoToken), "none", FALSE, <<>>)
  /\ toast' = "none"
  /\ UNCHANGED <<user, token, location, valid, store, nextId, chatView>>

\* checkAuthStatus after GET /auth/me
GetMeDone(j, status) ==
  LET h == flight[j] IN
  /\ h.kind = "checkAuthStatus"
  /\ status \in {"ok", "401", "network"}
  /\ status # "network" => Authenticate(h.header) = status
  /\ IF status = "ok"
     THEN /\ user' = Profile(h.header)
          /\ UNCHANGED <<token, location>>
     ELSE /\ token' = NoToken
          /\ location' = InterceptedLocation(status)
          /\ user' = user
  /\ authLoading' = AuthLoadingAfter(status)
  /\ toast' = InterceptedToast(status)
  /\ flight' = Returns(j)
  /\ returned' = Answered(h, status, status = "ok", <<>>)
  /\ UNCHANGED <<valid, store, nextId, chatView>>

\* login up to its await
Login(a, good) ==
  /\ CanInvoke
  /\ flight' = Append(flight, [Request("login", NoToken) EXCEPT
                                 !.account = a, !.good = good])
  /\ toast' = "none"
  /\ returned' = NoCall
  /\ UNCHANGED <<user, auth, store, nextId, chatView>>

\* the token login leaves: the issued one after a success, otherwise what
\* the response interceptor left
LoggedInToken(h, status) == IF status = "ok" THEN h.account ELSE InterceptedToken(status)

\* login after POST /auth/login; the backend accepts right credentials and
\* issues a token, and rejects wrong ones with 400 or 401
LoginDone(j, status) ==
  LET h == flight[j] IN
  /\ h.kind = "login"
  /\ status \in {"ok", "400", "401", "network"}
  /\ status = "ok" => h.good
  /\ status \in {"400", "401"} => ~h.good
  /\ token' = LoggedInToken(h, status)
  /\ IF status = "ok"
     THEN /\ valid' = valid \cup {h.account}
          /\ user' = Profile(h.account)
          /\ toast' = "Login successful!"
          /\ location' = location
     ELSE /\ location' = InterceptedLocation(status)
          /\ toast' = IF status = "network" THEN "Login failed" ELSE "detail: login rejected"
          /\ UNCHANGED <<user, valid>>
  /\ flight' = Returns(j)
  /\ returned' = Answered(h, status, status = "ok", <<>>)
  /\ UNCHANGED <<authLoading, store, nextId, chatView>>

\* register up to its await
Register ==
  /\ CanInvoke
  /\ flight' = Append(flight, Request("register", NoToken))
  /\ toast' = "none"
  /\ returned' = NoCall
  /\ UNCHANGED <<user, auth, store, nextId, chatView>>

\* register after POST /auth/register
RegisterDone(j, status) ==
  LET h == flight[j] IN
  /\ h.kind = "register"
  /\ status \in {"ok", "400", "network"}
  /\ token' = InterceptedToken(status)
  /\ location' = InterceptedLocation(status)
  /\ toast' = IF status = "ok" THEN "Registration successful! Please login."
              ELSE IF status = "network" THEN "Registration failed"
              ELSE "detail: registration rejected"
  /\ flight' = Returns(j)
  /\ returned' = Answered(h, status, status = "ok", <<>>)
  /\ UNCHANGED <<user, authLoading, valid, store, nextId, chatView>>

Logout ==
  /\ token' = NoToken
  /\ user' = NullUser
  /\ toast' = "Logged out successfully"
  /\ returned' = Answered(Request("logout", NoToken), "none", TRUE, <<>>)
  /\ UNCHANGED <<flight, authLoading, location, valid, store, nextId, chatView>>

ApiOps == {"createSession", "getSessions", "getSession", "deleteSession"}
OnSession == {"getSession", "deleteSession"}

\* a function of chatAPI is called: the request leaves with the header of
\* the request interceptor
ApiCall(op, s) ==
  /\ CanInvoke
  /\ (op \in OnSession) <=> (s # NoSession)
  /\ flight' = Append(flight, [Request(op, AuthHeader) EXCEPT !.arg = s])
  /\ toast' = "none"
  /\ returned' = NoCall
  /\ UNCHANGED <<user, auth, store, nextId, chatView>>

\* The backend answers a session request for the account of its header, and
\* the response passes the response interceptor on its way to the caller.
ApiDone(j, status) ==
  LET h == flight[j]
      ok == status = "ok"
  IN
  /\ h.kind \in ApiOps
  /\ status \in {"ok", "401", "403", "404", "network"}
  /\ status \in {"401", "403"} => Authenticate(h.header) = status
  /\ status \in {"ok", "404"} => Authenticate(h.header) = "ok"
  /\ status = "404" => (h.kind \in OnSession /\ ~Owns(h.header, h.arg))
  /\ (ok /\ h.kind \in OnSession) => Owns(h.header, h.arg)
  /\ (ok /\ h.kind = "createSession") => CanCreate
  /\ store' = IF ok /\ h.kind = "createSession"
              THEN [store EXCEPT ![CreateSessionId] =
                      [Stored(DefaultModel) EXCEPT !.owner = h.header]]
              ELSE IF ok /\ h.kind = "deleteSession"
              THEN [store EXCEPT ![h.arg] = NoRecord]
              ELSE store
  /\ nextId' = IF ok /\ h.kind = "createSession" THEN nextId + 1 ELSE nextId
  /\ token' = InterceptedToken(status)
  /\ location' = InterceptedLocation(status)
  /\ toast' = InterceptedToast(status)
  /\ flight' = Returns(j)
  /\ returned' = Answered(h, status, ok,
                          IF ~ok THEN <<>>
                          ELSE IF h.kind = "getSessions" THEN ListOwned(h.header)
                          ELSE IF h.kind = "createSession" THEN <<CreateSessionId>>
                          ELSE <<h.arg>>)
  /\ UNCHANGED <<user, authLoading, valid, chatView>>

\* the backend stops accepting a token it issued (the token has expired)
Expire(a) ==
  /\ a \in valid
  /\ valid' = valid \ {a}
  /\ toast' = "none"
  /\ returned' = NoCall
  /\ UNCHANGED <<user, token, authLoading, location, flight, store, nextId, chatView>>

\* The document requested by window.location.href = '/login' replaces the
\* current one: the pending handlers are gone with it, the AuthProvider is
\* mounted anew and its effect calls checkAuthStatus.
PageLoad ==
  /\ location = "->/login"
  /\ location' = "/login"
  /\ user' = NullUser
  /\ authLoading' = (token # NoToken)
  /\ flight' = GetMeCalls(token)
  /\ toast' = "none"
  /\ returned' = NoCall
  /\ UNCHANGED <<token, valid, store, nextId, chatView>>

NextAuth ==
  \/ CheckAuthStatus
  \/ \E j \in Waiting, status \in {"ok", "401", "network"} : GetMeDone(j, status)
  \/ \E a \in Accounts, good \in BOOLEAN : Login(a, good)
  \/ \E j \in Waiting, status \in {"ok", "400", "401", "network"} : LoginDone(j, status)
  \/ Register
  \/ \E j \in Waiting, status \in {"ok", "400", "network"} : RegisterDone(j, status)
  \/ Logout
  \/ \E op \in ApiOps, s \in 0..MaxSessions : ApiCall(op, s)
  \/ \E j \in Waiting, status \in {"ok", "401", "403", "404", "network"} : ApiDone(j, status)
  \/ \E a \in Accounts : Expire(a)
  \/ PageLoad

SpecAuth == InitAuth /\ [][NextAuth]_vars

\* ------------------------------------------------------------- properties
Last(q) == q[Len(q)]
Has(q, x) == \E n \in 1..Len(q) : q[n] = x

SendReturned == returned.kind = "sendMessage"
\* the send that returned in the last step was answered by the completion service
Completed == SendReturned /\ Has(returned.trace, "persist")
SendsWaiting == {j \in Waiting : flight[j].kind = "sendMessage"}

\* C1: a send attempt of a non-exempt user whose balance is 0 is rejected at
\* admission: it issues no request, creates no session and leaves the
\* messages, the session list, the balance and the backend as they were.
C1_ZeroBalanceRejected ==
  [][(SendMessage /\ ~IsAdmin(user) /\ user.ctype = "num" /\ user.credits = 0)
       => /\ UNCHANGED <<user, chatState, flight, backend>>
          /\ Trim(inputMessage) # "" => toast' = "Insufficient credits"]_vars

C1_Witness ==
  /\ SendReturned /\ Last(returned.trace) = "rejected"
  /\ ~IsAdmin(user) /\ user.credits = 0
  /\ flight = <<>> /\ messages = <<>>

\* C2: the credit check admits a send exactly when the user is exempt or
\* has a balance above 0, for every user value: a send that is waiting was
\* started by a user who can send, and a rejected one by a user who cannot.
RefCanSend(u) == IsAdmin(u) \/ (u.present /\ u.ctype = "num" /\ u.credits > 0)

C2_AdmissionIsCanSend ==
  /\ \A j \in SendsWaiting : RefCanSend(flight[j].user)
  /\ (SendReturned /\ Last(returned.trace) = "rejected") => ~RefCanSend(returned.user)

\* C3: when a successful send of a non-exempt user settles, the balance
\* after it is the balance before it minus the usage of its response.
C3_DebitIsUsage ==
  [][\A j \in Waiting :
       (SendSettle(j) /\ ~IsAdmin(flight[j].user) /\ ~SettleThrows(flight[j], flight[j].usage))
         => user'.credits = user.credits - flight[j].usage]_vars

\* C4: an exempt user is never debited: the balance shown and the ledger
\* balance of an admin stay what they were, whatever the usage.
C4_ExemptNeverDebited ==
  /\ IsAdmin(user) => (user.credits = AdminCredits /\ balance = AdminCredits)
  /\ \A j \in SendsWaiting : IsAdmin(flight[j].user) => flight[j].user.credits = AdminCredits

C4_Witness ==
  /\ Completed /\ IsAdmin(returned.user) /\ returned.usage = MaxUsage
  /\ IsAdmin(user) /\ user.credits = AdminCredits

\* C5 as stated: the balance of a non-exempt user is never below 0.
C5_NeverNegative == IsAdmin(user) \/ user.credits >= 0

\* C5 as amended: a non-exempt user has a balance above 0 whenever one of
\* their sends is admitted, so every send that is waiting was started from a
\* balance above 0; the balance after settlement is not bounded below by 0.
C5_PositiveAtAdmission ==
  \A j \in SendsWaiting : IsAdmin(flight[j].user) \/ flight[j].user.credits > 0

C5_Witness ==
  \E j \in SendsWaiting :
    /\ ~IsAdmin(flight[j].user) /\ flight[j].user.credits = 1
    /\ flight[j].pc = "persisted" /\ flight[j].usage = MaxUsage

\* C6: the debit is unconditional.  A non-exempt user with balance 1 is
\* admitted; a settlement whose usage exceeds the balance the send was
\* admitted with subtracts the full usage and leaves a negative balance, the
\* send still succeeds, and no step other than a settlement changes the
\* balance afterwards.
C6_DebitUnconditional ==
  [][/\ (SendMessage /\ ~IsAdmin(user) /\ user.credits = 1 /\ Trim(inputMessage) # "")
          => flight' # flight
     /\ \A j \in Waiting :
          (SendSettle(j) /\ Debits(flight[j], flight[j].usage)
             /\ flight[j].usage > flight[j].user.credits)
            => /\ user'.credits = flight[j].user.credits - flight[j].usage
               /\ user'.credits < 0
               /\ messages' = messages /\ toast' = "none"
     /\ user' # user => \E j \in Waiting : SendSettle(j)]_vars

C6_Witness ==
  /\ Completed /\ Last(returned.trace) = "settle"
  /\ returned.user.credits = 1 /\ returned.usage = MaxUsage
  /\ ~IsAdmin(user) /\ user.credits = 1 - MaxUsage

\* C7 as stated: a send whose completion call fails has created no session,
\* and its failure leaves the session store and the ledger unchanged.
C7_FailedSendChangesNothing ==
  [][\A j \in Waiting, kind \in FailureKinds :
       SendFailed(j, kind)
         => /\ ~Has(flight[j].trace, "create")
            /\ UNCHANGED <<user, backend>>]_vars

\* C7 as amended: a send whose completion call fails debits nothing, appends
\* no message and modifies or removes no stored session; the one change it
\* can leave in the session store is an empty session created during session
\* resolution, before the call.
C7_FailedSendKeepsLedgerAndHistory ==
  [][/\ \A j \in Waiting, kind \in FailureKinds :
          SendFailed(j, kind) => UNCHANGED <<user, backend, sessions, currentSession>>
     /\ \A j \in Waiting :
          (SendCreated(j) \/ SendArrived(j))
            => /\ UNCHANGED <<user, balance>>
               /\ \A s \in SessionIds :
                    \/ store'[s] = store[s]
                    \/ ~store[s].live /\ store'[s] = Stored(flight[j].selectedModel)]_vars

C7_Witness ==
  /\ SendReturned /\ Last(returned.trace) = "rollback"
  /\ Has(returned.trace, "create") /\ Has(returned.trace, "failed")
  /\ store[returned.sid].live
  /\ user = returned.user

\* C8: when the completion request of a send fails, the messages shown are
\* exactly the messages that were shown when that send was started.
C8_RollbackRestoresMessages ==
  (SendReturned /\ Has(returned.trace, "failed")) => messages = returned.messages

C8_Witness ==
  /\ SendReturned /\ Has(returned.trace, "failed")
  /\ returned.messages # <<>> /\ messages = returned.messages

\* C9: within a send the order is invocation, persistence, settlement: the
\* balance changes only in a step of a send whose request has succeeded and
\* whose exchange is already recorded in the messages, and the exchange is
\* recorded only by a send whose request was issued.
C9_InvokePersistSettle ==
  [][/\ user' # user
          => \E j \in Waiting :
               /\ flight[j].pc = "persisted"
               /\ Last(flight[j].trace) = "persist"
               /\ messages = Append(NewMessages(flight[j]), AssistantMsg(Reply))
               /\ flight' = Returns(j)
     /\ \A j \in Waiting :
          (flight[j].pc = "persisted" /\ Has(flight[j].trace, "persist"))
            => /\ Has(flight[j].trace, "invoke")
               /\ flight[j].trace[Len(flight[j].trace) - 1] = "invoke"]_vars

C9_Witness ==
  /\ Completed
  /\ returned.trace = <<"admit", "create", "invoke", "persist", "settle">>
  /\ user.credits = returned.user.credits - returned.usage

\* C10: a send whose completion call succeeded although its session is no
\* longer stored ends with a NotFound error and without a debit.
C10_DeletedSessionNoDebit ==
  (Completed /\ returned.sid # NoSession /\ ~store[returned.sid].live)
    => /\ ~Has(returned.trace, "settle")
       /\ user = returned.user
       /\ toast # "none"

\* C11: the step that records a successful exchange extends the conversation
\* by exactly two messages: the list it finds ends with the user turn of its
\* send, every message of that list stays in place, and the assistant turn
\* is added after it, so that the result is the list the send started from
\* followed by the user turn and the assistant turn.
C11_ExchangeExtendsConversation ==
  [][\A j \in Waiting, n \in Usages :
       SendSucceeded(j, n)
         => /\ messages = Append(flight[j].messages, UserMsg(Trim(flight[j].input)))
            /\ messages' = Append(messages, AssistantMsg(Reply))]_vars

\* C12: once a session is deleted, fetching it and deleting it again are both
\* answered NotFound: the handler reports the failure and changes neither the
\* session list, the current session, the messages, the balance nor the
\* store, so the state after the second delete is the state after the first.
C12_DeletedSessionNotFound ==
  [][\A j \in Waiting :
       /\ (DeleteSessionDone(j) /\ ~store[flight[j].arg].live)
            => /\ toast' = "Failed to delete session"
               /\ UNCHANGED <<user, chatState, backend>>
       /\ (SelectSessionDone(j) /\ ~store[flight[j].arg].live)
            => /\ toast' = "Failed to load session"
               /\ UNCHANGED <<user, chatState, backend>>]_vars

C12_Witness ==
  /\ returned.kind = "deleteSession" /\ returned.trace = <<"failed">>
  /\ ~store[returned.arg].live
  /\ toast = "Failed to delete session"
  /\ sessions # <<>>

\* C13: session resolution precedes invocation.  A send started without a
\* current session issues its completion request only after it has created
\* exactly one session, with the model selected when it started; a send
\* started with a current session creates none and uses that session.
C13_ResolutionBeforeInvocation ==
  [][/\ \A j \in Waiting :
          SendCreated(j)
            => /\ flight'[j].sid = CreateSessionId
               /\ store' = [store EXCEPT ![CreateSessionId] = Stored(flight[j].selectedModel)]
               /\ nextId' = nextId + 1
     /\ (SendMessage /\ currentSession # NoSession)
          => /\ UNCHANGED <<store, nextId>>
             /\ flight' # flight => Last(flight').sid = currentSession]_vars

\* C14: admission and debit are not one transaction.  A send admitted on a
\* positive balance is settled in full even when the balance has meanwhile
\* reached 0 or less through another send: the client subtracts the usage
\* from the balance the send was admitted with, the ledger subtracts it from
\* whatever it holds, and neither step re-examines admission.  The witness is
\* the interleaving of the claim: two sends admitted at balance 1, both
\* completed with usage, the balance negative.
C14_AdmissionNotRechecked ==
  [][/\ \A j \in Waiting :
          (SendSettle(j) /\ Debits(flight[j], flight[j].usage) /\ user.credits <= 0)
            => /\ user' = Minus(flight[j].user, flight[j].usage)
               /\ toast' = "none"
     /\ \A j \in Waiting, n \in Usages :
          (SendSucceeded(j, n) /\ ~IsAdmin(flight[j].user) /\ balance <= 0)
            => balance' = balance - n]_vars

C14_Witness ==
  /\ Completed /\ Last(returned.trace) = "settle"
  /\ ~IsAdmin(returned.user) /\ returned.user.credits = 1 /\ returned.usage = MaxUsage
  /\ SendsWaiting = {}
  /\ user.credits = 1 - MaxUsage
  /\ balance = 1 - 2 * MaxUsage

\* C15: no debit is lost and none is applied twice.  The ledger holds the
\* initial balance minus the usage of every successful send; once every send
\* of a non-exempt user has returned, the balance of the user equals it.
C15_NoDebitLost ==
  (SendsWaiting = {} /\ ~IsAdmin(user)) => user.credits = balance

\* C16: a send issues at most one completion request.  When the request
\* fails, for whatever reason, sendMessage raises the error, clears loading
\* and returns in that same step; the request is not issued again.
Requests(h) == Cardinality({n \in 1..Len(h.trace) : h.trace[n] = "invoke"})

C16_NoRetry ==
  [][/\ \A j \in SendsWaiting : Requests(flight[j]) <= 1
     /\ \A j \in Waiting, kind \in FailureKinds :
          SendFailed(j, kind)
            => /\ flight' = Returns(j)
               /\ returned'.pc = "returned" /\ Requests(returned') = 1
               /\ toast' = ErrorMessage(kind) /\ toast' # "none"
               /\ loading' = FALSE]_vars

C16_Witness ==
  /\ SendReturned /\ Has(returned.trace, "failed")
  /\ Requests(returned) = 1
  /\ SendsWaiting = {}
  /\ toast = ErrorMessage("upstream")
  /\ ~loading

\* C17: no error is silently swallowed.  Every handler that returns after a
\* failure (a rejected admission, a failed completion request, a failed
\* list, fetch, create or delete) raises an error in the step in which it
\* returns, and a send whose session creation failed issues no request.
C17_NoErrorSwallowed ==
  [][/\ (returned'.pc = "returned"
           /\ Last(returned'.trace) \in {"failed", "rejected", "rollback"})
          => toast' # "none"
     /\ \A j \in Waiting :
          (SendCreated(j) /\ Has(flight'[j].trace, "create_failed"))
            => ~Has(flight'[j].trace, "invoke")]_vars

\* C18: the session list holds only sessions of the user, most recent first:
\* in every state the ids shown are strictly decreasing (ids grow with
\* creation), and once no handler is pending every entry shown is a session
\* the store holds.
C18_ListIsRecentFirstAndOwn ==
  /\ \A a, b \in 1..Len(sessions) : a < b => sessions[a] > sessions[b]
  /\ flight = <<>> => \A a \in 1..Len(sessions) : store[sessions[a]].live

\* C19: reading a session is side-effect free and repeatable.  A fetch
\* changes neither the store nor the balance; a successful fetch shows
\* exactly the stored messages; and a fetch of the session that was fetched
\* in the step before, with nothing written in between, shows the same
\* sequence again.
C19_FetchIsPure ==
  [][\A j \in Waiting :
       SelectSessionDone(j)
         => /\ UNCHANGED <<user, backend>>
            /\ returned'.trace = <<"ok">>
                 => /\ messages' = store[flight[j].arg].messages
                    /\ currentSession' = flight[j].arg
            /\ (returned'.trace = <<"ok">> /\ returned.kind = "selectSession"
                  /\ returned.trace = <<"ok">> /\ returned.arg = flight[j].arg)
                 => messages' = messages]_vars

C19_Witness ==
  /\ returned.kind = "selectSession" /\ returned.trace = <<"ok">>
  /\ currentSession = returned.arg
  /\ messages = store[returned.arg].messages /\ messages # <<>>
  /\ \E j \in Waiting : flight[j].kind = "selectSession" /\ flight[j].arg = returned.arg

\* C20: every append of an exchange is atomic.  In every state, under every
\* interleaving of sends and deletes, each stored message sequence consists
\* of whole exchanges (a user turn at every odd position, followed by its
\* assistant turn) and the stored message count is its length.
WholeExchanges(q) ==
  /\ Len(q) % 2 = 0
  /\ \A n \in 1..Len(q) : q[n].role = IF n % 2 = 1 THEN "user" ELSE "assistant"

C23_DeleteChangesOnlyItsSession ==
  [][\A j \in Waiting :
       DeleteSessionDone(j)
         => /\ UNCHANGED <<user, inputMessage, loading, selectedModel>>
            /\ IF returned'.trace = <<"ok">>
               THEN IF currentSession = flight[j].arg
                    THEN currentSession' = NoSession /\ messages' = <<>>
                    ELSE UNCHANGED <<currentSession, messages>>
               ELSE UNCHANGED <<sessions, currentSession, messages>>]_vars

\* C24: the loading flag follows the completion request.  A send whose
\* request settles, with a response or with a failure, leaves loading false,
\* and loading is false whenever no send has a completion request in flight.
RequestInFlight(h) == h.kind = "sendMessage" /\ h.pc \in {"posting", "invoking", "persisted"}

C24_LoadingFollowsRequest ==
  /\ (\A j \in Waiting : ~RequestInFlight(flight[j])) => ~loading
  /\ (SendReturned /\ Has(returned.trace, "invoke")) => ~loading

C24_Witness ==
  /\ SendReturned /\ Has(returned.trace, "invoke") /\ Has(returned.trace, "failed")
  /\ SendsWaiting = {} /\ flight # <<>>
  /\ ~loading

\* C25: at most one completion request is in flight at any time: between the
\* acceptance of a send and its return no second sendMessage is accepted, so
\* there is never more than one send waiting and never more than one
\* POST /chat outstanding.
C25_OneSendAtATime ==
  /\ Cardinality(SendsWaiting) <= 1
  /\ Cardinality({j \in Waiting : RequestInFlight(flight[j])}) <= 1

\* C26: the messages shown are a conversation of the current session only.
\* A step of a send that was started under another session than the current
\* one (its response, its settlement or its failure) does not change the
\* messages shown; a send that has just created its session shows its own
\* user turn and nothing from before; a new chat starts with no messages.
C26_MessagesOfCurrentSessionOnly ==
  [][/\ \A j \in Waiting, n \in Usages :
          (SendSucceeded(j, n) /\ flight[j].sid # currentSession) => messages' = messages
     /\ \A j \in Waiting, kind \in FailureKinds :
          (SendFailed(j, kind) /\ flight[j].sid # currentSession) => messages' = messages
     /\ \A j \in Waiting :
          (SendSettle(j) /\ flight[j].sid # currentSession) => messages' = messages
     /\ \A j \in Waiting :
          (SendCreated(j) /\ Last(flight'[j].trace) = "invoke" /\ flight'[j].sid # NoSession)
            => messages' = <<UserMsg(Trim(flight[j].input))>>
     /\ \A j \in Waiting :
          (NewChatDone(j) /\ returned'.trace = <<"ok">>) => messages' = <<>>]_vars

\* C27: the session list follows the completed operations.  A delete that
\* succeeded takes its session out of the list and neither drops nor brings
\* back any other; a create that succeeded adds its session and neither
\* drops nor brings back any other, whatever other requests are outstanding.
ListedIds(q) == {q[n] : n \in 1..Len(q)}

C27_ListFollowsCompletedOperations ==
  [][/\ \A j \in Waiting :
          (DeleteSessionDone(j) /\ returned'.trace = <<"ok">>)
            => ListedIds(sessions') = ListedIds(sessions) \ {flight[j].arg}
     /\ \A j \in Waiting :
          (NewChatDone(j) /\ returned'.trace = <<"ok">>)
            => ListedIds(sessions') = ListedIds(sessions) \cup {CreateSessionId}
     /\ \A j \in Waiting :
          (SendCreated(j) /\ flight'[j].sid # NoSession)
            => ListedIds(sessions') = ListedIds(sessions) \cup {CreateSessionId}]_vars

\* C21: sessions are isolated by owner.  Whatever an account requests with
\* list, fetch and delete, a session owned by another account is not
\* changed or removed, is in no response, and a fetch or delete of it fails:
\* with NotFound when the caller's token is accepted.
ApiReturns == returned'.kind \in ApiOps /\ returned'.pc = "returned"

C21_SessionsIsolatedByOwner ==
  [][LET h == returned'
         foreign(s) == store[s].live /\ store[s].owner # h.header
     IN
     ApiReturns
       => /\ \A s \in SessionIds : foreign(s) => store'[s] = store[s]
          /\ \A n \in 1..Len(h.data) : ~foreign(h.data[n])
          /\ (h.kind \in OnSession /\ foreign(h.arg))
               => /\ h.status # "ok"
                  /\ (Authenticate(h.header) = "ok" /\ h.status # "network")
                       => h.status = "404"]_vars

C21_Witness ==
  /\ returned.kind = "deleteSession" /\ returned.status = "404"
  /\ returned.header = "B"
  /\ store[returned.arg].live /\ store[returned.arg].owner = "A"

\* C22: whenever a request returns because the backend rejected the
\* caller's credential (missing, invalid or expired: status 401 or 403),
\* the stored token is removed, the browser is sent to the login page and
\* the caller gets a failure.
C22_RejectedCredentialLogsOut ==
  [][(returned'.pc = "returned" /\ returned'.status \in {"401", "403"})
       => /\ token' = NoToken
          /\ location' = "->/login"
          /\ ~returned'.success]_vars

\* C28: the auth context never holds a logged-in user without a stored
\* token: in every state, user is not null implies a token is stored.
C28_UserImpliesToken == user.present => token # NoToken

\* C29: a failed login changes nothing: when login returns after a failed
\* request the stored token and the user are what they were before, the
\* result is a failure and an error message is shown; a successful login
\* stores the issued token and sets the user; register changes neither.
C29_FailedLoginChangesNothing ==
  [][/\ (returned'.kind = "login" /\ returned'.pc = "returned")
          => IF returned'.status = "ok"
             THEN /\ token' = returned'.account
                  /\ user' = Profile(returned'.account)
                  /\ returned'.success
             ELSE /\ token' = token
                  /\ user' = user
                  /\ ~returned'.success
                  /\ toast' # "none"
     /\ (returned'.kind = "register" /\ returned'.pc = "returned")
          => token' = token /\ user' = user]_vars

\* C30: checkAuthStatus ends with the auth loading flag false on every path
\* (no stored token, token accepted, token rejected or request failed); when
\* the request fails the token is removed, when the token is accepted the
\* user is set and the token kept, and without a stored token no request is
\* made and the user is left as it is.
GetMeIssued ==
  /\ Len(flight') = Len(flight) + 1
  /\ Last(flight').kind = "checkAuthStatus"

C30_CheckAuthStatusEndsLoaded ==
  [][/\ (returned'.kind = "checkAuthStatus" /\ returned'.pc = "returned")
          => /\ authLoading' = FALSE
             /\ returned'.status \in {"401", "network"} => token' = NoToken
             /\ returned'.status = "ok"
                  => (user' = Profile(returned'.header) /\ token' = token)
             /\ returned'.status = "none"
                  => (token = NoToken /\ flight' = flight /\ user' = user /\ token' = token)
     /\ GetMeIssued => token # NoToken]_vars

C30_Witness ==
  /\ returned.kind = "checkAuthStatus" /\ returned.status = "401"
  /\ token = NoToken /\ ~authLoading /\ ~user.present
  /\ location = "->/login"

====
